---- MODULE Spec2Model ----
(***************************************************************************)
(* Shared-state core of the LRCLIB server (server/src/lib.rs): the bounded *)
(* missing-track queue (crossbeam ArrayQueue), the request counter and its *)
(* periodic read-and-reset task, and the three moka cache tiers.           *)
(*                                                                         *)
(* The capacities and durations of lib.rs (600,000 items; 100,000 /        *)
(* 5,000,000 / 400,000 entries; 5 minutes / 7 days / 24 hours / 4 hours)   *)
(* are represented by small stand-ins that keep their order relations      *)
(* (time-to-idle < time-to-live); the properties are stated over the       *)
(* stand-ins, so they are checked for every value the stand-ins take.      *)
(***************************************************************************)
EXTENDS Integers, Sequences, FiniteSets, TLC

\* ------------------------------------------------------------------ bounds

\* stand-in for ArrayQueue::new(600000)
QueueCapacity == 2
\* enqueue calls made by request handlers in one run
MaxEnqueues == 4
\* workers_count: u8, the largest pool size explored
MaxWorkers == 2
\* concurrent request handlers that may be inside an enqueue call
NumHandlers == 2
\* inbound requests in one run
MaxRequests == 4
\* ticks of the request-rate task in one run
MaxTicks == 3

\* stand-ins for the tiers' max_capacity (100,000 / 5,000,000 / 400,000)
ChallengeCapacity == 1
GetCapacity == 2
SearchCapacity == 2
\* stand-ins for the tiers' time_to_live (5 minutes / 7 days / 24 hours) and
\* for the search tier's time_to_idle (4 hours), in clock steps
ChallengeTTL == 2
GetTTL == 5
SearchTTL == 4
SearchTTI == 2
\* operations a tier buffers before an operation runs its maintenance
\* (stand-in for moka's read and write log flush points)
LogFlushPoint == 1
\* largest count the tier's frequency sketch holds for a key
\* (stand-in for the sketch's 4-bit counters)
FreqCap == 1
\* get and insert calls made on the tier in one run
MaxCacheOps == 5
\* requests that call the tier at the same time, the calls they make in one
\* run, and the key they share
NumCallers == 3
MaxRaceCalls == 4
RaceKey == 1
\* longest header value, in bytes
MaxHeaderLen == 1
\* seconds the clock advances in one step, and the last second followed
ClockStepSecs == 30
MaxSeconds == 240
\* largest result of the recent-lyrics count query
MaxLyricsCount == 2
\* requests, enqueue calls and cache calls in a run of the whole server
ServeRequests == 2
ServeEnqueues == 2
ServeCacheOps == 1

\* Duration::from_secs(60) of the tasks' initial sleep and of their interval
SleepSecs == 60
IntervalSecs == 60
\* keys callers use in the runs that let time pass
NumAgedKeys == 2

Handlers == 1..NumHandlers
WorkerIds == 1..MaxWorkers
NoItem == 0

VARIABLES
  \* ---- AppState.queue and its users
  queue,          \* ArrayQueue<MissingTrack>: the items in FIFO order
  enqueued,       \* number of push calls started so far (item identities)
  accepted,       \* items for which push returned Ok
  rejected,       \* items for which push returned Err (handed back)
  hpc,            \* per handler: "idle" | "push" (inside the push call)
  hitem,          \* per handler: the item it is pushing
  hres,           \* per handler: result of its last push
  workers_count,  \* serve's workers_count argument
  wpc,            \* per worker: "pop" | "work"
  witem,          \* per worker: the item it holds
  popped,         \* item -> number of pops that returned it
  attempts,       \* item -> number of resolution attempts made on it
  failures,       \* items whose resolution attempt failed
  acceptOrder,    \* the accepted items, in the order their pushes took effect
  wres,           \* per worker: what its latest pop returned
  \* ---- AppState.request_counter and the request-rate task
  request_counter,
  arrivals,       \* inbound requests so far
  lastMethod,     \* method of the latest inbound request
  inflight,       \* requests inside the router
  windowAll,      \* inbound requests since the previous swap
  windowTraced,   \* on_request calls since the previous swap
  tracedTotal,    \* on_request calls so far
  mpc,            \* request-rate task: "sleep" | "loop"
  mdeadline,      \* instant at which the task's pending timer completes
  mspawnAt,       \* instant at which the task was spawned
  lastReportAt,   \* instant of the latest report
  ticks,          \* reports emitted so far
  lastReported,   \* requests_count of the latest report
  lastWindowAll,  \* windowAll as it was at the latest report
  reportedTotal,  \* sum of all requests_count reported
  \* ---- AppState.recent_lyrics_count and the recent-lyrics task
  recent_lyrics_count,
  pool,           \* AppState.pool: connections the task has checked out
  rpc,            \* recent-lyrics task: "sleep" | "loop" | "query" | "dead"
  rdeadline,      \* instant at which the task's pending timer completes
  rspawnAt,       \* instant at which the task was spawned
  rticks,         \* counts stored so far
  lastTickAt,     \* instant at which the task's latest tick completed
  lastQuery,      \* result of the latest count query
  prevRecent,     \* recent_lyrics_count as it was before the latest store
  rfailed,        \* pool.get() or the count query has returned Err
  \* ---- the clock
  now,            \* seconds since serve began
  mlate,          \* the clock has passed a timer the request-rate task awaits
  rlate,          \* the clock has passed a timer the recent-lyrics task awaits
  \* ---- serve and the process
  spc,            \* serve's position: the step it is about to take
  started,        \* the startup steps completed, in order
  qpc,            \* queue task: "unspawned" | "spawned" | "running"
  signal,         \* "none", or the signal shutdown_signal returned on
  exited,         \* the process has ended
  arrivalsAtSignal,  \* arrivals as it was when the signal came
  inflightAtSignal,  \* inflight as it was when the signal came
  \* ---- one cache tier (challenge_cache, get_cache or search_cache)
  tier,           \* which of the three tiers this run follows
  cache,          \* key -> NoEntry or [val, age, idle]: the tier's hash map
  deque,          \* admitted keys, least recently used first
  freq,           \* key -> popularity count held by the frequency sketch
  sketchOn,       \* whether the frequency sketch has been enabled
  readLog,        \* recorded reads not yet applied to the policy
  writeLog,       \* recorded writes not yet applied to the policy
  decisions,      \* admission decisions of the latest maintenance run
  written,        \* key -> NoEntry or [val, age, idle]: what callers set
  cacheOps,       \* get and insert calls made so far
  \* ---- the trace layer's request span
  spanHeaders,    \* headers of the request the latest span was made for
  user_agent,     \* the span's user_agent field
  \* ---- requests that call one tier on one key at the same time
  cpc,            \* per caller: "idle" | "set" | "setdone" | "get" | "getdone"
  carg,           \* per caller: the value its insert call was given
  cret,           \* per caller: what its latest get call returned
  cticket,        \* per caller: the number of its pending insert call
  calls,          \* calls started so far
  lastApplied,    \* the value of the insert that reached the map last
  setValues,      \* the values that inserts have put into the map
  raced           \* an insert reached the map before one called earlier

queueVars == <<queue, enqueued, accepted, rejected, hpc, hitem, hres,
               workers_count, wpc, witem, popped, attempts, failures,
               acceptOrder, wres>>
metricVars == <<request_counter, arrivals, lastMethod, inflight, windowAll,
                windowTraced, tracedTotal, mpc, mdeadline, mspawnAt,
                lastReportAt, ticks, lastReported, lastWindowAll,
                reportedTotal>>
recentVars == <<recent_lyrics_count, pool, rpc, rdeadline, rspawnAt, rticks,
                lastTickAt, lastQuery, prevRecent, rfailed>>
clockVars == <<now, mlate, rlate>>
cacheVars == <<tier, cache, deque, freq, sketchOn, readLog, writeLog,
               decisions, written, cacheOps>>
spanVars == <<spanHeaders, user_agent>>
raceVars == <<cpc, carg, cret, cticket, calls, lastApplied, setValues, raced>>
lifeVars == <<spc, started, qpc, signal, exited, arrivalsAtSignal,
              inflightAtSignal>>
vars == <<queueVars, metricVars, recentVars, clockVars, cacheVars, spanVars, raceVars,
          lifeVars>>
otherThanQueue == <<metricVars, recentVars, clockVars, cacheVars, spanVars, raceVars,
                    lifeVars>>
otherThanMetrics == <<queueVars, recentVars, clockVars, cacheVars, spanVars, raceVars,
                      lifeVars>>
otherThanRecent == <<queueVars, metricVars, clockVars, cacheVars, spanVars, raceVars,
                     lifeVars>>
otherThanCache == <<queueVars, metricVars, recentVars, clockVars, spanVars, raceVars,
                    lifeVars>>
otherThanSpan == <<queueVars, metricVars, recentVars, clockVars, cacheVars,
                   raceVars, lifeVars>>
otherThanLife == <<queueVars, metricVars, recentVars, clockVars, cacheVars,
                   spanVars, raceVars>>

\* a process whose tasks and workers would stop at the shutdown signal
AliveUntilSignal == ~exited /\ signal = "none"

\* the process runs: tasks are polled and handlers make progress
Alive == ~exited

\* the listener takes new connections: serve is in axum::serve and the
\* graceful-shutdown future has not completed
Accepting == spc = "serve" /\ signal = "none"

\* ------------------------------------------------- ArrayQueue<MissingTrack>

\* a push into a queue that grows instead of refusing
PushGrowing(q, item) == [q |-> Append(q, item), res |-> "ok"]

\* ArrayQueue::push with the oldest element displaced (force_push)
PushDisplacing(q, item) ==
  IF Len(q) >= QueueCapacity
    THEN [q |-> Append(Tail(q), item), res |-> "ok"]
    ELSE [q |-> Append(q, item), res |-> "ok"]

\* ArrayQueue::push: Err(item) when full, the queue untouched; else appended
Push(q, item) ==
  IF Len(q) >= QueueCapacity
    THEN [q |-> q, res |-> "full"]
    ELSE [q |-> Append(q, item), res |-> "ok"]

\* a pop that returns the head without unlinking it
PopKeeping(q) ==
  IF q = <<>> THEN [q |-> q, item |-> NoItem]
              ELSE [q |-> q, item |-> Head(q)]

\* a pop that takes the newest element (a stack)
PopNewest(q) ==
  IF q = <<>> THEN [q |-> q, item |-> NoItem]
              ELSE [q |-> SubSeq(q, 1, Len(q) - 1), item |-> q[Len(q)]]

\* ArrayQueue::pop: None when empty, else the head, removed
Pop(q) ==
  IF q = <<>> THEN [q |-> q, item |-> NoItem]
              ELSE [q |-> Tail(q), item |-> Head(q)]

InitQueue ==
  /\ queue = <<>>
  /\ enqueued = 0
  /\ accepted = {}
  /\ rejected = {}
  /\ hpc = [h \in Handlers |-> "idle"]
  /\ hitem = [h \in Handlers |-> NoItem]
  /\ hres = [h \in Handlers |-> "none"]
  /\ workers_count \in 0..MaxWorkers
  /\ wpc = [w \in WorkerIds |-> "pop"]
  /\ witem = [w \in WorkerIds |-> NoItem]
  /\ popped = [i \in 1..MaxEnqueues |-> 0]
  /\ attempts = [i \in 1..MaxEnqueues |-> 0]
  /\ failures = {}
  /\ acceptOrder = <<>>
  /\ wres = [w \in WorkerIds |-> "none"]

\* a request handler whose lookup missed builds a MissingTrack and calls push
EnqueueCall(h) ==
  /\ Alive
  /\ hpc[h] = "idle"
  /\ enqueued < MaxEnqueues
  /\ enqueued' = enqueued + 1
  /\ hitem' = [hitem EXCEPT ![h] = enqueued + 1]
  /\ hpc' = [hpc EXCEPT ![h] = "push"]
  /\ UNCHANGED <<queue, accepted, rejected, hres, workers_count, wpc, witem,
                 popped, attempts, failures, acceptOrder, wres>>
  /\ UNCHANGED otherThanQueue

\* the push call returns
EnqueueReturn(h) ==
  /\ Alive
  /\ hpc[h] = "push"
  /\ LET r == Push(queue, hitem[h]) IN
       /\ queue' = r.q
       /\ hres' = [hres EXCEPT ![h] = r.res]
       /\ accepted' = IF r.res = "ok" THEN accepted \cup {hitem[h]} ELSE accepted
       /\ rejected' = IF r.res = "ok" THEN rejected ELSE rejected \cup {hitem[h]}
       /\ acceptOrder' = IF r.res = "ok" THEN Append(acceptOrder, hitem[h])
                                         ELSE acceptOrder
  /\ hpc' = [hpc EXCEPT ![h] = "idle"]
  /\ UNCHANGED <<enqueued, hitem, workers_count, wpc, witem, popped, attempts,
                 failures, wres>>
  /\ UNCHANGED otherThanQueue

\* a worker of the pool polls the queue
WorkerPop(w) ==
  /\ Alive
  /\ qpc = "running"
  /\ w <= workers_count
  /\ wpc[w] = "pop"
  /\ LET r == Pop(queue) IN
       /\ queue' = r.q
       /\ IF r.item = NoItem
            THEN /\ wres' = [wres EXCEPT ![w] = "empty"]
                 /\ UNCHANGED <<wpc, witem, popped>>
            ELSE /\ wres' = [wres EXCEPT ![w] = "item"]
                 /\ witem' = [witem EXCEPT ![w] = r.item]
                 /\ wpc' = [wpc EXCEPT ![w] = "work"]
                 /\ popped' = [popped EXCEPT ![r.item] = @ + 1]
  /\ UNCHANGED <<enqueued, accepted, rejected, hpc, hitem, hres,
                 workers_count, attempts, failures, acceptOrder>>
  /\ UNCHANGED otherThanQueue

\* the worker's resolution attempt ends, well or badly; the item is dropped
WorkerAttempt(w, ok) ==
  /\ Alive
  /\ qpc = "running"
  /\ w <= workers_count
  /\ wpc[w] = "work"
  /\ attempts' = [attempts EXCEPT ![witem[w]] = @ + 1]
  /\ failures' = IF ok THEN failures ELSE failures \cup {witem[w]}
  /\ witem' = [witem EXCEPT ![w] = NoItem]
  /\ wpc' = [wpc EXCEPT ![w] = "pop"]
  /\ UNCHANGED <<queue, enqueued, accepted, rejected, hpc, hitem, hres,
                 workers_count, popped, acceptOrder, wres>>
  /\ UNCHANGED otherThanQueue

NextQueue ==
  \/ \E h \in Handlers : EnqueueCall(h)
  \/ \E h \in Handlers : EnqueueReturn(h)
  \/ \E w \in WorkerIds : WorkerPop(w)
  \/ \E w \in WorkerIds, ok \in BOOLEAN : WorkerAttempt(w, ok)

\* --------------------------------------------- request counter, rate task

Methods == {"GET", "POST", "OPTIONS"}

\* the CORS layer answers every OPTIONS request itself; the rest go inward
CorsForwards(method) == method # "OPTIONS"

\* an on_request that adds nothing
FetchAddNone(counter) == counter

\* request_counter.fetch_add(1, Relaxed): the new value
FetchAdd(counter) == counter + 1

\* a read of the counter that leaves it in place
LoadOnly(counter) == [old |-> counter, new |-> counter]

\* request_counter.swap(0, Relaxed): the value read and the value left
Swap(counter) == [old |-> counter, new |-> 0]

\* tokio::time::sleep(d) begun at instant t completes at t + d
SleepUntil(t) == t + SleepSecs

\* an interval whose first tick waits a whole period
IntervalStartAfterPeriod(t) == t + IntervalSecs

\* tokio::time::interval(period) made at instant t: the first tick completes
\* at once
IntervalStart(t) == t

\* the interval's next deadline after a tick (missed ticks are caught up:
\* the period is counted from the deadline, not from the instant the tick
\* was taken)
NextTimeout(timeout) == timeout + IntervalSecs

InitMetrics ==
  /\ request_counter = 0
  /\ arrivals = 0
  /\ lastMethod = "none"
  /\ inflight = 0
  /\ windowAll = 0
  /\ windowTraced = 0
  /\ tracedTotal = 0
  /\ mpc = "sleep"
  /\ mspawnAt = 0
  /\ mdeadline = SleepUntil(0)
  /\ lastReportAt = 0
  /\ ticks = 0
  /\ lastReported = 0
  /\ lastWindowAll = 0
  /\ reportedTotal = 0

\* a request arrives: CORS layer, then the trace layer's on_request
RequestArrives(method) ==
  /\ Alive
  /\ Accepting
  /\ arrivals < MaxRequests
  /\ arrivals' = arrivals + 1
  /\ lastMethod' = method
  /\ windowAll' = windowAll + 1
  /\ IF CorsForwards(method)
       THEN /\ request_counter' = FetchAdd(request_counter)
            /\ windowTraced' = windowTraced + 1
            /\ tracedTotal' = tracedTotal + 1
            /\ inflight' = inflight + 1
       ELSE UNCHANGED <<request_counter, windowTraced, tracedTotal, inflight>>
  /\ UNCHANGED <<mpc, mdeadline, mspawnAt, lastReportAt, ticks, lastReported,
                 lastWindowAll, reportedTotal>>
  /\ UNCHANGED otherThanMetrics

\* the handler of a request in flight returns a response or fails
RequestEnds(ok) ==
  /\ Alive
  /\ inflight > 0
  /\ inflight' = inflight - 1
  /\ UNCHANGED <<request_counter, arrivals, lastMethod, windowAll,
                 windowTraced, tracedTotal, mpc, mdeadline, mspawnAt,
                 lastReportAt, ticks, lastReported, lastWindowAll,
                 reportedTotal>>
  /\ UNCHANGED otherThanMetrics

\* the task's initial sleep(60 s) ends and it builds its interval
MetricsWake ==
  /\ Alive
  /\ mpc = "sleep"
  /\ now >= mdeadline
  /\ mpc' = "loop"
  /\ mdeadline' = IntervalStart(now)
  /\ UNCHANGED <<request_counter, arrivals, lastMethod, inflight, windowAll,
                 windowTraced, tracedTotal, mspawnAt, lastReportAt, ticks,
                 lastReported, lastWindowAll, reportedTotal>>
  /\ UNCHANGED otherThanMetrics

\* interval.tick() completes: swap and report
MetricsTick ==
  /\ Alive
  /\ mpc = "loop"
  /\ now >= mdeadline
  /\ ticks < MaxTicks
  /\ mdeadline' = NextTimeout(mdeadline)
  /\ lastReportAt' = now
  /\ LET s == Swap(request_counter) IN
       /\ request_counter' = s.new
       /\ lastReported' = s.old
       /\ reportedTotal' = reportedTotal + s.old
  /\ ticks' = ticks + 1
  /\ lastWindowAll' = windowAll
  /\ windowAll' = 0
  /\ windowTraced' = 0
  /\ UNCHANGED <<arrivals, lastMethod, inflight, tracedTotal, mpc, mspawnAt>>
  /\ UNCHANGED otherThanMetrics

\* ------------------------------------------------------------- the clock

\* a task that awaits a timer whose deadline is before instant t
Overdue(pc, deadline, t) ==
  pc \in {"sleep", "loop", "query"} /\ deadline < t

\* time passes; a task that has not taken a completed timer by then is late
ClockAdvance ==
  /\ Alive
  /\ now + ClockStepSecs <= MaxSeconds
  /\ now' = now + ClockStepSecs
  /\ mlate' = (mlate \/ Overdue(mpc, mdeadline, now'))
  /\ rlate' = (rlate \/ Overdue(rpc, rdeadline, now'))
  /\ UNCHANGED <<queueVars, metricVars, recentVars, cacheVars, spanVars, raceVars,
                 lifeVars>>

InitClock ==
  /\ now = 0
  /\ mlate = FALSE
  /\ rlate = FALSE

NextMetrics ==
  \/ \E m \in Methods : RequestArrives(m)
  \/ \E ok \in BOOLEAN : RequestEnds(ok)
  \/ MetricsWake
  \/ MetricsTick
  \/ ClockAdvance

\* ------------------------------------ recent_lyrics_count, recent-lyrics task

\* a store that adds to what the counter holds
StoreAdding(counter, count) == counter + count

\* AtomicUsize::store(count, Relaxed): the new value
StoreCount(counter, count) == count

\* a store that lands in the request counter
RecentStoreWrongField(counters, count) ==
  [counters EXCEPT !.request_counter = StoreCount(@, count)]

\* state.recent_lyrics_count.store(count as usize, Relaxed) on the counters
\* of AppState
RecentStore(counters, count) ==
  [counters EXCEPT !.recent_lyrics_count = StoreCount(@, count)]

\* a task whose loop goes on after a failed unwrap
AfterPanicLooping(pc) == pc

\* a panic in a spawned task ends that task; nothing restarts it
AfterPanic(pc) == "dead"

InitRecent ==
  /\ recent_lyrics_count = 0
  /\ pool = 0
  /\ rpc = "sleep"
  /\ rspawnAt = 0
  /\ rdeadline = SleepUntil(0)
  /\ rticks = 0
  /\ lastTickAt = 0
  /\ lastQuery = 0
  /\ prevRecent = 0
  /\ rfailed = FALSE

\* the task's initial sleep(60 s) ends and it builds its interval
RecentWake ==
  /\ Alive
  /\ rpc = "sleep"
  /\ now >= rdeadline
  /\ rpc' = "loop"
  /\ rdeadline' = IntervalStart(now)
  /\ UNCHANGED <<recent_lyrics_count, pool, rspawnAt, rticks, lastTickAt,
                 lastQuery, prevRecent, rfailed>>
  /\ UNCHANGED otherThanRecent

\* interval.tick() completes and pool.get() hands the task a connection
RecentTick ==
  /\ Alive
  /\ rpc = "loop"
  /\ now >= rdeadline
  /\ rticks < MaxTicks
  /\ rdeadline' = NextTimeout(rdeadline)
  /\ lastTickAt' = now
  /\ pool' = pool + 1
  /\ rpc' = "query"
  /\ UNCHANGED <<recent_lyrics_count, rspawnAt, rticks, lastQuery, prevRecent,
                 rfailed>>
  /\ UNCHANGED otherThanRecent

\* the count query returns count, the count is stored, and the connection
\* goes back to the pool at the end of the loop body
RecentStores(count) ==
  /\ Alive
  /\ rpc = "query"
  /\ LET c == RecentStore([request_counter |-> request_counter,
                           recent_lyrics_count |-> recent_lyrics_count],
                          count) IN
       /\ recent_lyrics_count' = c.recent_lyrics_count
       /\ request_counter' = c.request_counter
  /\ rticks' = rticks + 1
  /\ lastQuery' = count
  /\ prevRecent' = recent_lyrics_count
  /\ pool' = pool - 1
  /\ rpc' = "loop"
  /\ UNCHANGED <<rdeadline, rspawnAt, lastTickAt, rfailed>>
  /\ UNCHANGED <<arrivals, lastMethod, inflight, windowAll, windowTraced,
                 tracedTotal, mpc, mdeadline, mspawnAt, lastReportAt, ticks,
                 lastReported, lastWindowAll, reportedTotal>>
  /\ UNCHANGED <<queueVars, clockVars, cacheVars, spanVars, raceVars, lifeVars>>

\* pool.get() (at the completed tick) or the count query returns Err: the
\* unwrap panics, and the unwinding gives back a connection taken
RecentFails(at) ==
  /\ Alive
  /\ \/ at = "pool.get" /\ rpc = "loop" /\ now >= rdeadline /\ rticks < MaxTicks
     \/ at = "query" /\ rpc = "query"
  /\ rpc' = AfterPanic(rpc)
  /\ pool' = IF at = "query" THEN pool - 1 ELSE pool
  /\ rfailed' = TRUE
  /\ UNCHANGED <<recent_lyrics_count, rdeadline, rspawnAt, rticks,
                 lastTickAt, lastQuery, prevRecent>>
  /\ UNCHANGED otherThanRecent

NextRecent ==
  \/ RecentWake
  \/ RecentTick
  \/ \E count \in 0..MaxLyricsCount : RecentStores(count)
  \/ \E at \in {"pool.get", "query"} : RecentFails(at)

\* both periodic tasks and the clock
NextTasks ==
  \/ MetricsWake
  \/ MetricsTick
  \/ RecentWake
  \/ RecentTick
  \/ \E count \in 0..MaxLyricsCount : RecentStores(count)
  \/ \E at \in {"pool.get", "query"} : RecentFails(at)
  \/ ClockAdvance

\* ------------------------------------------------- moka cache tiers

Tiers == {"challenge", "get", "search"}
Values == {"a", "b"}
NoValue == "none"
NoEntry == [val |-> NoValue, age |-> 0, idle |-> 0]

Min(a, b) == IF a <= b THEN a ELSE b

\* max_capacity of each tier
Capacity(t) ==
  CASE t = "challenge" -> ChallengeCapacity
    [] t = "get" -> GetCapacity
    [] t = "search" -> SearchCapacity

\* time_to_live of each tier
TTL(t) ==
  CASE t = "challenge" -> ChallengeTTL
    [] t = "get" -> GetTTL
    [] t = "search" -> SearchTTL

\* only the search tier is built with time_to_idle
HasTTI(t) == t = "search"
TTI(t) == SearchTTI

\* the keys callers use in a run: one more than the tier can hold
KeysOf(t) == 1..(Capacity(t) + 1)

\* An entry's timestamps (last_modified, last_accessed) are kept as the time
\* elapsed since them, which is all the expiry checks read; an elapsed time
\* stops growing at the limit it is compared with, and the time since the
\* last access is not followed in a tier that has no time_to_idle.
AgeCap(t) == TTL(t)
IdleCap(t) == IF HasTTI(t) THEN TTI(t) ELSE 0

\* an expiry check that knows no time_to_idle
ExpiredByTTLOnly(t, e) == e.age >= TTL(t)

\* the tier's expiry check: last_modified + ttl <= now, or, with a
\* time_to_idle, last_accessed + tti <= now
Expired(t, e) ==
  \/ e.age >= TTL(t)
  \/ HasTTI(t) /\ e.idle >= TTI(t)

\* what get(k) returns: the value of a present, unexpired entry
Lookup(t, c, k) ==
  IF c[k] = NoEntry \/ Expired(t, c[k]) THEN NoValue ELSE c[k].val

\* a read hit that also renews the entry's write time
TouchRenewing(e) == [e EXCEPT !.idle = 0, !.age = 0]

\* a read hit sets last_accessed to now
Touch(e) == [e EXCEPT !.idle = 0]

\* an insert that keeps the value of an entry already present
StoreIfAbsent(c, k, v) ==
  IF c[k] = NoEntry THEN [c EXCEPT ![k] = [val |-> v, age |-> 0, idle |-> 0]]
                    ELSE c

\* an insert that writes over the bytes of a present value in place, so that
\* the entry holds neither value whole while another value was there
StoreTorn(c, k, v) ==
  [c EXCEPT ![k] = [val |-> IF c[k].val \in {NoValue, v} THEN v ELSE "torn",
                    age |-> 0, idle |-> 0]]

\* insert puts the value in the hash map at once, both timestamps at now
Store(c, k, v) == [c EXCEPT ![k] = [val |-> v, age |-> 0, idle |-> 0]]

InSeq(dq, k) == \E n \in 1..Len(dq) : dq[n] = k
Without(dq, k) == SelectSeq(dq, LAMBDA x : x # k)
MoveToBack(dq, k) == Append(Without(dq, k), k)

\* a recorded read is applied: the sketch counts it, a hit on an admitted
\* entry moves the entry to the most-recently-used end
ApplyRead(ps, r) ==
  [ps EXCEPT
     !.freq = IF ps.sketchOn
                THEN [@ EXCEPT ![r.key] = Min(@ + 1, FreqCap)]
                ELSE @,
     !.deque = IF r.hit /\ InSeq(@, r.key) THEN MoveToBack(@, r.key) ELSE @]

RECURSIVE ApplyReads(_, _)
ApplyReads(ps, log) ==
  IF log = <<>> THEN ps
  ELSE ApplyReads(ApplyRead(ps, Head(log)), Tail(log))

\* an admission rule that lets every candidate in (a plain LRU policy)
AdmitsAlways(candFreq, victimFreq) == TRUE

\* the default policy's admission rule: the candidate must be more popular
\* than the victim
Admits(candFreq, victimFreq) == candFreq > victimFreq

\* whether a new entry can be admitted without an eviction, with no limit
HasRoomAlways(t, dq) == TRUE

\* whether a new entry can be admitted without an eviction
HasRoom(t, dq) == Len(dq) < Capacity(t)

\* the victim a candidate competes with: the least recently used admitted
\* entry that has no write of its own waiting (0: there is none)
Victim(dq, pending) ==
  LET c == SelectSeq(dq, LAMBDA x : x \notin pending)
  IN IF c = <<>> THEN 0 ELSE Head(c)

\* a recorded upsert of k is applied: an admitted entry moves to the
\* most-recently-used end; a new one is admitted if there is room; else it
\* competes with the victim, and the loser leaves the hash map (a rejected
\* candidate stays when a later write of the same key is still to be
\* applied). pending: the keys with a later write still to be applied.
ApplyWrite(t, ps, k, pending) ==
  IF ps.cache[k] = NoEntry THEN ps
  ELSE IF InSeq(ps.deque, k) THEN [ps EXCEPT !.deque = MoveToBack(@, k)]
  ELSE IF HasRoom(t, ps.deque) THEN [ps EXCEPT !.deque = Append(@, k)]
  ELSE
    LET v == Victim(ps.deque, pending)
        d == [cand |-> k, lru |-> v, candFreq |-> ps.freq[k],
              lruFreq |-> IF v = 0 THEN 0 ELSE ps.freq[v],
              later |-> k \in pending,
              order |-> SelectSeq(ps.deque, LAMBDA x : x \notin pending)]
    IN IF v # 0 /\ Admits(ps.freq[k], ps.freq[v])
         THEN [ps EXCEPT !.cache[v] = NoEntry,
                         !.deque = Append(Without(@, v), k),
                         !.out = @ \cup {v},
                         !.decisions = Append(@, d @@ [out |-> v])]
         ELSE IF k \in pending
           THEN [ps EXCEPT !.decisions = Append(@, d @@ [out |-> 0])]
           ELSE [ps EXCEPT !.cache[k] = NoEntry,
                           !.out = @ \cup {k},
                           !.decisions = Append(@, d @@ [out |-> k])]

RECURSIVE ApplyWrites(_, _, _, _)
ApplyWrites(t, ps, log, dirty) ==
  IF log = <<>> THEN ps
  ELSE LET k == Head(log)
           rest == Tail(log)
           pending == dirty \cup {rest[n] : n \in 1..Len(rest)}
       IN ApplyWrites(t, ApplyWrite(t, ps, k, pending), rest, dirty)

\* the sketch starts counting once the tier is half full
EnableSketch(t, ps) ==
  [ps EXCEPT !.sketchOn = @ \/ Len(ps.deque) >= Capacity(t) \div 2]

\* admitted entries that have expired leave the hash map and the deque
EvictExpired(t, ps) ==
  LET dead == {k \in DOMAIN ps.cache :
                 InSeq(ps.deque, k) /\ Expired(t, ps.cache[k])}
  IN [ps EXCEPT
        !.cache = [k \in DOMAIN @ |-> IF k \in dead THEN NoEntry ELSE @[k]],
        !.deque = SelectSeq(@, LAMBDA x : x \notin dead)]

\* the tier's maintenance: reads, then writes, then the sketch, then expiry
RunPendingTasks(t, ps, reads, writes, dirty) ==
  EvictExpired(t, EnableSketch(t, ApplyWrites(t, ApplyReads(ps, reads),
                                              writes, dirty)))

\* the tier as an operation finds it; decisions and out (the keys removed for
\* capacity) are those of the operation's own maintenance run
PolicyState ==
  [cache |-> cache, deque |-> deque, freq |-> freq, sketchOn |-> sketchOn,
   decisions |-> <<>>, out |-> {}]

InitCache ==
  /\ tier \in Tiers
  /\ cache = [k \in KeysOf(tier) |-> NoEntry]
  /\ deque = <<>>
  /\ freq = [k \in KeysOf(tier) |-> 0]
  /\ sketchOn = FALSE
  /\ readLog = <<>>
  /\ writeLog = <<>>
  /\ decisions = <<>>
  /\ written = [k \in KeysOf(tier) |-> NoEntry]
  /\ cacheOps = 0

\* what callers may still expect of the keys: a value set and not since
\* removed for capacity
Expect(w, out) == [k \in DOMAIN w |-> IF k \in out THEN NoEntry ELSE w[k]]

\* cache.insert(k, v): the hash map is written, the maintenance runs if it is
\* due (the write log at its flush point, or enough time since the last run:
\* sync), and the write is recorded for the next run
Insert(k, v, sync) ==
  LET run == sync \/ Len(writeLog) >= LogFlushPoint
      ps0 == [PolicyState EXCEPT !.cache = Store(cache, k, v)]
      ps == IF run THEN RunPendingTasks(tier, ps0, readLog, writeLog, {k})
                   ELSE ps0
  IN /\ Alive
     /\ cacheOps < MaxCacheOps
     /\ cacheOps' = cacheOps + 1
     /\ cache' = ps.cache
     /\ deque' = ps.deque
     /\ freq' = ps.freq
     /\ sketchOn' = ps.sketchOn
     /\ decisions' = ps.decisions
     /\ readLog' = IF run THEN <<>> ELSE readLog
     /\ writeLog' = Append(IF run THEN <<>> ELSE writeLog, k)
     /\ written' = Expect([written EXCEPT ![k] = [val |-> v, age |-> 0,
                                                  idle |-> 0]], ps.out)
     /\ UNCHANGED tier

\* an insert call of a request, taken whole
CacheSet(k, v, sync) ==
  /\ Insert(k, v, sync)
  /\ UNCHANGED otherThanCache

\* cache.get(k): a present, unexpired entry is a hit and its last_accessed is
\* set; the maintenance runs if it is due; the read is recorded
Get(k, sync) ==
  LET hit == Lookup(tier, cache, k) # NoValue
      run == sync \/ Len(readLog) >= LogFlushPoint
      ps0 == [PolicyState EXCEPT
                !.cache = IF hit THEN [cache EXCEPT ![k] = Touch(@)] ELSE cache]
      ps == IF run THEN RunPendingTasks(tier, ps0, readLog, writeLog, {})
                   ELSE ps0
  IN /\ Alive
     /\ cacheOps < MaxCacheOps
     /\ cacheOps' = cacheOps + 1
     /\ cache' = ps.cache
     /\ deque' = ps.deque
     /\ freq' = ps.freq
     /\ sketchOn' = ps.sketchOn
     /\ decisions' = ps.decisions
     /\ readLog' = Append(IF run THEN <<>> ELSE readLog,
                          [key |-> k, hit |-> hit])
     /\ writeLog' = IF run THEN <<>> ELSE writeLog
     /\ written' = Expect(IF hit THEN [written EXCEPT ![k].idle = 0]
                                 ELSE written, ps.out)
     /\ UNCHANGED tier

\* a get call of a request, taken whole
CacheGet(k, sync) ==
  /\ Get(k, sync)
  /\ UNCHANGED otherThanCache

\* an entry one clock step later
Older(t, e) ==
  IF e = NoEntry THEN e
  ELSE [e EXCEPT !.age = Min(@ + 1, AgeCap(t)), !.idle = Min(@ + 1, IdleCap(t))]

\* one clock step passes
ClockStep ==
  /\ Alive
  /\ cache' = [k \in DOMAIN cache |-> Older(tier, cache[k])]
  /\ written' = [k \in DOMAIN written |-> Older(tier, written[k])]
  /\ decisions' = <<>>
  /\ UNCHANGED <<tier, deque, freq, sketchOn, readLog, writeLog, cacheOps>>
  /\ UNCHANGED otherThanCache

NextCache ==
  \/ \E k \in KeysOf(tier), v \in Values, sync \in BOOLEAN : CacheSet(k, v, sync)
  \/ \E k \in KeysOf(tier), sync \in BOOLEAN : CacheGet(k, sync)
  \/ ClockStep

\* a burst of calls on one more key than the tier holds, within a clock step
NextCacheBurst ==
  \/ \E k \in KeysOf(tier), v \in Values, sync \in BOOLEAN : CacheSet(k, v, sync)
  \/ \E k \in KeysOf(tier), sync \in BOOLEAN : CacheGet(k, sync)

\* calls on a few keys while time passes
AgedKeys == 1..NumAgedKeys
NextCacheAged ==
  \/ \E k \in AgedKeys, v \in Values, sync \in BOOLEAN : CacheSet(k, v, sync)
  \/ \E k \in AgedKeys, sync \in BOOLEAN : CacheGet(k, sync)
  \/ ClockStep

\* ------------------------------- requests calling one tier at the same time

\* Several requests call insert and get on one key of the tier while the
\* others' calls are under way. A call is three steps: the request enters
\* the call, the call reaches the tier's hash map (Insert or Get above, the
\* one step in which the map's entry is replaced or read), the call returns.

Callers == 1..NumCallers

otherThanCacheAndRace == <<queueVars, metricVars, recentVars, clockVars,
                           spanVars, lifeVars>>

InitRace ==
  /\ cpc = [c \in Callers |-> "idle"]
  /\ carg = [c \in Callers |-> NoValue]
  /\ cret = [c \in Callers |-> NoValue]
  /\ cticket = [c \in Callers |-> 0]
  /\ calls = 0
  /\ lastApplied = NoValue
  /\ setValues = {}
  /\ raced = FALSE

\* a request calls cache.insert(key, v)
SetCall(c, v) ==
  /\ Alive
  /\ cpc[c] = "idle"
  /\ calls < MaxRaceCalls
  /\ calls' = calls + 1
  /\ cpc' = [cpc EXCEPT ![c] = "set"]
  /\ carg' = [carg EXCEPT ![c] = v]
  /\ cticket' = [cticket EXCEPT ![c] = calls + 1]
  /\ UNCHANGED <<cret, lastApplied, setValues, raced>>
  /\ UNCHANGED <<cacheVars, otherThanCacheAndRace>>

\* the insert reaches the hash map: the entry now holds the caller's value
SetApply(c, sync) ==
  /\ cpc[c] = "set"
  /\ Insert(RaceKey, carg[c], sync)
  /\ cpc' = [cpc EXCEPT ![c] = "setdone"]
  /\ lastApplied' = carg[c]
  /\ setValues' = setValues \cup {carg[c]}
  /\ raced' = (raced \/ \E d \in Callers : /\ cpc[d] = "set"
                                             /\ cticket[d] < cticket[c])
  /\ UNCHANGED <<carg, cret, cticket, calls>>
  /\ UNCHANGED otherThanCacheAndRace

\* the insert call returns
SetReturn(c) ==
  /\ Alive
  /\ cpc[c] = "setdone"
  /\ cpc' = [cpc EXCEPT ![c] = "idle"]
  /\ cticket' = [cticket EXCEPT ![c] = 0]
  /\ UNCHANGED <<carg, cret, calls, lastApplied, setValues, raced>>
  /\ UNCHANGED <<cacheVars, otherThanCacheAndRace>>

\* a request calls cache.get(key)
GetCall(c) ==
  /\ Alive
  /\ cpc[c] = "idle"
  /\ calls < MaxRaceCalls
  /\ calls' = calls + 1
  /\ cpc' = [cpc EXCEPT ![c] = "get"]
  /\ UNCHANGED <<carg, cret, cticket, lastApplied, setValues, raced>>
  /\ UNCHANGED <<cacheVars, otherThanCacheAndRace>>

\* the get reads the hash map: a clone of the entry's value, or nothing
GetApply(c, sync) ==
  /\ cpc[c] = "get"
  /\ Get(RaceKey, sync)
  /\ cret' = [cret EXCEPT ![c] = Lookup(tier, cache, RaceKey)]
  /\ cpc' = [cpc EXCEPT ![c] = "getdone"]
  /\ UNCHANGED <<carg, cticket, calls, lastApplied, setValues, raced>>
  /\ UNCHANGED otherThanCacheAndRace

\* the get call returns
GetReturn(c) ==
  /\ Alive
  /\ cpc[c] = "getdone"
  /\ cpc' = [cpc EXCEPT ![c] = "idle"]
  /\ UNCHANGED <<carg, cret, cticket, calls, lastApplied, setValues, raced>>
  /\ UNCHANGED <<cacheVars, otherThanCacheAndRace>>

NextRace ==
  \/ \E c \in Callers, v \in Values : SetCall(c, v)
  \/ \E c \in Callers, sync \in BOOLEAN : SetApply(c, sync)
  \/ \E c \in Callers : SetReturn(c)
  \/ \E c \in Callers : GetCall(c)
  \/ \E c \in Callers, sync \in BOOLEAN : GetApply(c, sync)
  \/ \E c \in Callers : GetReturn(c)

\* ------------------------------------------ make_span_with: client identity

\* the three headers the span reads, in the order the closure reads them
HeaderNames == <<"Lrclib-Client", "X-User-Agent", "User-Agent">>

\* bytes a header value is made of here: 'a', 'b' and 0xE9 (not ASCII)
HeaderBytes == {97, 98, 233}

RECURSIVE SeqsUpTo(_, _)
SeqsUpTo(S, n) ==
  IF n = 0 THEN {<<>>}
  ELSE LET shorter == SeqsUpTo(S, n - 1)
       IN shorter \cup {Append(s, b) : s \in shorter, b \in S}

\* a header of a request: absent, or present with a value of raw bytes
HeaderValues ==
  {[present |-> FALSE, bytes |-> <<>>]}
    \cup {[present |-> TRUE, bytes |-> s] : s \in SeqsUpTo(HeaderBytes, MaxHeaderLen)}

HeaderMaps == [{HeaderNames[n] : n \in 1..Len(HeaderNames)} -> HeaderValues]

None == [some |-> FALSE, str |-> <<>>]

\* HeaderValue::to_str().ok(): the value as text if every byte is visible
\* ASCII (32..126) or a tab
ToStrOk(v) ==
  IF \A n \in 1..Len(v.bytes) :
       v.bytes[n] = 9 \/ (v.bytes[n] >= 32 /\ v.bytes[n] < 127)
    THEN [some |-> TRUE, str |-> v.bytes]
    ELSE None

\* headers.get(name).and_then(|value| value.to_str().ok())
GetText(headers, name) ==
  IF headers[name].present THEN ToStrOk(headers[name]) ELSE None

\* Option::or_else
OrElse(opt, alt) == IF opt.some THEN opt ELSE alt

\* Option::unwrap_or
UnwrapOr(opt, default) == IF opt.some THEN opt.str ELSE default

\* a span that asks the standard user-agent header first
UserAgentStandardFirst(headers) ==
  UnwrapOr(OrElse(OrElse(GetText(headers, "User-Agent"),
                         GetText(headers, "X-User-Agent")),
                  GetText(headers, "Lrclib-Client")),
           <<>>)

\* the user_agent of make_span_with
UserAgent(headers) ==
  UnwrapOr(OrElse(OrElse(GetText(headers, "Lrclib-Client"),
                         GetText(headers, "X-User-Agent")),
                  GetText(headers, "User-Agent")),
           <<>>)

InitSpan ==
  /\ spanHeaders = [n \in {HeaderNames[i] : i \in 1..Len(HeaderNames)} |->
                      [present |-> FALSE, bytes |-> <<>>]]
  /\ user_agent = <<>>

\* the trace layer makes the span of a request; it reads the request only
MakeSpan(headers) ==
  /\ Alive
  /\ spc = "serve"
  /\ spanHeaders' = headers
  /\ user_agent' = UserAgent(headers)
  /\ UNCHANGED otherThanSpan

NextSpan == \E headers \in HeaderMaps : MakeSpan(headers)

\* ---------------------------------------------------------- specifications

\* ----------------------------------------------------- serve, the process

\* the steps of serve, in the order of its statements
StartupOrder == <<"pool", "state", "metrics", "recent", "queue", "listener">>

\* serve as it would be with the listener bound before the queue task is
\* spawned
StepAfterBindEarly(step) ==
  CASE step = "init_db" -> "state"
    [] step = "state" -> "spawn_metrics"
    [] step = "spawn_metrics" -> "spawn_recent"
    [] step = "spawn_recent" -> "bind"
    [] step = "bind" -> "spawn_queue"
    [] step = "spawn_queue" -> "serve"

\* the statement serve reaches when a step has succeeded
StepAfter(step) ==
  CASE step = "init_db" -> "state"
    [] step = "state" -> "spawn_metrics"
    [] step = "spawn_metrics" -> "spawn_recent"
    [] step = "spawn_recent" -> "spawn_queue"
    [] step = "spawn_queue" -> "bind"
    [] step = "bind" -> "serve"

\* a server that returns as soon as the signal has come
DrainedAlways(n) == TRUE

\* every connection task has ended: no request is in flight
Drained(n) == n = 0

\* the state in which serve is in axum::serve, every task spawned at
\* instant 0
InitLife ==
  /\ spc = "serve"
  /\ started = StartupOrder
  /\ qpc = "running"
  /\ signal = "none"
  /\ exited = FALSE
  /\ arrivalsAtSignal = 0
  /\ inflightAtSignal = 0

\* init_db(database).expect(..): the pool, or a panic
OpenPool(ok) ==
  /\ Alive
  /\ spc = "init_db"
  /\ spc' = IF ok THEN StepAfter("init_db") ELSE "panicked"
  /\ started' = IF ok THEN Append(started, "pool") ELSE started
  /\ UNCHANGED <<qpc, signal, exited, arrivalsAtSignal, inflightAtSignal>>
  /\ UNCHANGED otherThanLife

\* Arc::new(AppState { .. }): empty caches, an empty queue, counters at 0
BuildState ==
  /\ Alive
  /\ spc = "state"
  /\ spc' = StepAfter("state")
  /\ started' = Append(started, "state")
  /\ queue' = <<>>
  /\ request_counter' = 0
  /\ recent_lyrics_count' = 0
  /\ cache' = [k \in KeysOf(tier) |-> NoEntry]
  /\ deque' = <<>>
  /\ UNCHANGED <<enqueued, accepted, rejected, hpc, hitem, hres,
                 workers_count, wpc, witem, popped, attempts, failures,
                 acceptOrder, wres>>
  /\ UNCHANGED <<arrivals, lastMethod, inflight, windowAll, windowTraced,
                 tracedTotal, mpc, mdeadline, mspawnAt, lastReportAt, ticks,
                 lastReported, lastWindowAll, reportedTotal>>
  /\ UNCHANGED <<pool, rpc, rdeadline, rspawnAt, rticks, lastTickAt,
                 lastQuery, prevRecent, rfailed>>
  /\ UNCHANGED <<tier, freq, sketchOn, readLog, writeLog, decisions, written,
                 cacheOps>>
  /\ UNCHANGED <<qpc, signal, exited, arrivalsAtSignal, inflightAtSignal>>
  /\ UNCHANGED <<clockVars, spanVars, raceVars>>

\* tokio::spawn of the request-rate task: it begins its sleep
SpawnMetrics ==
  /\ Alive
  /\ spc = "spawn_metrics"
  /\ spc' = StepAfter("spawn_metrics")
  /\ started' = Append(started, "metrics")
  /\ mpc' = "sleep"
  /\ mspawnAt' = now
  /\ mdeadline' = SleepUntil(now)
  /\ UNCHANGED <<request_counter, arrivals, lastMethod, inflight, windowAll,
                 windowTraced, tracedTotal, lastReportAt, ticks, lastReported,
                 lastWindowAll, reportedTotal>>
  /\ UNCHANGED <<qpc, signal, exited, arrivalsAtSignal, inflightAtSignal>>
  /\ UNCHANGED <<queueVars, recentVars, clockVars, cacheVars, spanVars, raceVars>>

\* tokio::spawn of the recent-lyrics task: it begins its sleep
SpawnRecent ==
  /\ Alive
  /\ spc = "spawn_recent"
  /\ spc' = StepAfter("spawn_recent")
  /\ started' = Append(started, "recent")
  /\ rpc' = "sleep"
  /\ rspawnAt' = now
  /\ rdeadline' = SleepUntil(now)
  /\ UNCHANGED <<recent_lyrics_count, pool, rticks, lastTickAt, lastQuery,
                 prevRecent, rfailed>>
  /\ UNCHANGED <<qpc, signal, exited, arrivalsAtSignal, inflightAtSignal>>
  /\ UNCHANGED <<queueVars, metricVars, clockVars, cacheVars, spanVars, raceVars>>

\* tokio::spawn of the task that will run start_queue
SpawnQueue ==
  /\ Alive
  /\ spc = "spawn_queue"
  /\ spc' = StepAfter("spawn_queue")
  /\ started' = Append(started, "queue")
  /\ qpc' = "spawned"
  /\ UNCHANGED <<signal, exited, arrivalsAtSignal, inflightAtSignal>>
  /\ UNCHANGED otherThanLife

\* the spawned task is polled: start_queue starts the workers
StartQueue ==
  /\ Alive
  /\ qpc = "spawned"
  /\ qpc' = "running"
  /\ UNCHANGED <<spc, started, signal, exited, arrivalsAtSignal,
                 inflightAtSignal>>
  /\ UNCHANGED otherThanLife

\* TcpListener::bind(..).await.unwrap(): the listener, or a panic; with the
\* listener, axum::serve begins
Bind(ok) ==
  /\ Alive
  /\ spc = "bind"
  /\ spc' = IF ok THEN StepAfter("bind") ELSE "panicked"
  /\ started' = IF ok THEN Append(started, "listener") ELSE started
  /\ UNCHANGED <<qpc, signal, exited, arrivalsAtSignal, inflightAtSignal>>
  /\ UNCHANGED otherThanLife

\* shutdown_signal returns: ctrl_c or terminate, whichever completes first
ShutdownSignal(kind) ==
  /\ Alive
  /\ spc = "serve"
  /\ signal = "none"
  /\ signal' = kind
  /\ arrivalsAtSignal' = arrivals
  /\ inflightAtSignal' = inflight
  /\ UNCHANGED <<spc, started, qpc, exited>>
  /\ UNCHANGED otherThanLife

\* axum::serve(..).with_graceful_shutdown(..).await returns: the signal has
\* come and every connection task has ended
ServeReturns ==
  /\ Alive
  /\ spc = "serve"
  /\ signal # "none"
  /\ Drained(inflight)
  /\ spc' = "returned"
  /\ UNCHANGED <<started, qpc, signal, exited, arrivalsAtSignal,
                 inflightAtSignal>>
  /\ UNCHANGED otherThanLife

\* serve has returned or panicked: its caller ends the process, and with it
\* every task still running
ProcessExit ==
  /\ Alive
  /\ spc \in {"returned", "panicked"}
  /\ exited' = TRUE
  /\ UNCHANGED <<spc, started, qpc, signal, arrivalsAtSignal,
                 inflightAtSignal>>
  /\ UNCHANGED otherThanLife

Init ==
  /\ InitQueue /\ InitMetrics /\ InitRecent /\ InitClock /\ InitCache
  /\ InitRace /\ InitSpan /\ InitLife

\* the serving state, for the runs that follow the periodic tasks only
InitTasks ==
  /\ Init
  /\ workers_count = 0
  /\ tier = "challenge"

\* the serving state, any tier, for the runs that follow the tier's callers
InitRaceRun ==
  /\ Init
  /\ workers_count = 0

\* serve is entered: nothing is built, no task is spawned
InitStartup ==
  /\ InitQueue /\ InitClock /\ InitCache /\ InitRace /\ InitSpan
  /\ request_counter = 0
  /\ arrivals = 0
  /\ lastMethod = "none"
  /\ inflight = 0
  /\ windowAll = 0
  /\ windowTraced = 0
  /\ tracedTotal = 0
  /\ mpc = "unspawned"
  /\ mspawnAt = 0
  /\ mdeadline = 0
  /\ lastReportAt = 0
  /\ ticks = 0
  /\ lastReported = 0
  /\ lastWindowAll = 0
  /\ reportedTotal = 0
  /\ recent_lyrics_count = 0
  /\ pool = 0
  /\ rpc = "unspawned"
  /\ rspawnAt = 0
  /\ rdeadline = 0
  /\ rticks = 0
  /\ lastTickAt = 0
  /\ lastQuery = 0
  /\ prevRecent = 0
  /\ rfailed = FALSE
  /\ spc = "init_db"
  /\ started = <<>>
  /\ qpc = "unspawned"
  /\ signal = "none"
  /\ exited = FALSE
  /\ arrivalsAtSignal = 0
  /\ inflightAtSignal = 0

\* serve is entered with a pool of one worker; the run follows one tier
InitServe ==
  /\ InitStartup
  /\ workers_count = 1
  /\ tier = "challenge"

\* A short run of the whole server, from the entry of serve to the end of
\* the process: one handler and one worker, a few requests, and timers that
\* are taken when they complete.

\* the handler of a request in flight misses and enqueues
HandlerEnqueues ==
  /\ inflight > 0
  /\ enqueued < ServeEnqueues
  /\ EnqueueCall(1)

\* the handler of a request in flight stores a response in its tier
HandlerCaches ==
  /\ inflight > 0
  /\ cacheOps < ServeCacheOps
  /\ CacheSet(1, "a", TRUE)

\* a request arrives while few have
ServeRequestArrives ==
  /\ arrivals < ServeRequests
  /\ RequestArrives("GET")

\* a request whose handler is not inside a push ends
ServeRequestEnds ==
  /\ hpc[1] = "idle" \/ inflight > 1
  /\ RequestEnds(TRUE)

\* time passes while serve is in axum::serve or has returned, and no task
\* is made late
ServeClock ==
  /\ spc \in {"serve", "returned"}
  /\ ClockAdvance
  /\ ~mlate'
  /\ ~rlate'

NextServe ==
  \/ \E ok \in BOOLEAN : OpenPool(ok)
  \/ BuildState
  \/ SpawnMetrics
  \/ SpawnRecent
  \/ SpawnQueue
  \/ StartQueue
  \/ \E ok \in BOOLEAN : Bind(ok)
  \/ ServeRequestArrives
  \/ ServeRequestEnds
  \/ HandlerEnqueues
  \/ EnqueueReturn(1)
  \/ HandlerCaches
  \/ WorkerPop(1)
  \/ WorkerAttempt(1, TRUE)
  \/ MetricsWake
  \/ MetricsTick
  \/ RecentWake
  \/ RecentTick
  \/ RecentStores(MaxLyricsCount)
  \/ \E at \in {"pool.get", "query"} : RecentFails(at)
  \/ ServeClock
  \/ \E kind \in {"ctrl_c", "terminate"} : ShutdownSignal(kind)
  \/ ServeReturns
  \/ ProcessExit

NextLife ==
  \/ \E ok \in BOOLEAN : OpenPool(ok)
  \/ BuildState
  \/ SpawnMetrics
  \/ SpawnRecent
  \/ SpawnQueue
  \/ StartQueue
  \/ \E ok \in BOOLEAN : Bind(ok)
  \/ \E kind \in {"ctrl_c", "terminate"} : ShutdownSignal(kind)
  \/ ServeReturns
  \/ ProcessExit

Next ==
  \/ NextQueue
  \/ NextMetrics
  \/ NextRecent
  \/ NextLife
  \/ NextCache
  \/ NextRace
  \/ NextSpan

Spec == Init /\ [][Next]_vars

\* the queue, its producers and its workers, the rest of AppState at rest
SpecQueue == Init /\ [][NextQueue]_vars

\* the request path and the request-rate task, the rest of AppState at rest
SpecMetrics == Init /\ [][NextMetrics]_vars

\* one cache tier under a burst of calls, the rest of AppState at rest
SpecCacheBurst == Init /\ [][NextCacheBurst]_vars

\* one cache tier as time passes, the rest of AppState at rest
SpecCacheAged == Init /\ [][NextCacheAged]_vars

\* both periodic tasks as time passes, the rest of AppState at rest
SpecTasks == InitTasks /\ [][NextTasks]_vars

\* the server from the entry of serve to the end of the process
SpecServe == InitServe /\ [][NextServe]_vars

\* the trace layer making request spans
SpecSpan == Init /\ [][NextSpan]_vars

\* requests calling one key of one tier at the same time, within a clock
\* step, the rest of AppState at rest
SpecRace == InitRaceRun /\ [][NextRace]_vars

\* ------------------------------------------------------------------ claims

\* number of places of the queue that hold item i
InQueue(i) == Cardinality({n \in 1..Len(queue) : queue[n] = i})

\* C1: the queue never holds more than its capacity, and a handler that is
\* inside a push call can always take its return step, whatever the queue
\* holds and whatever the workers do (the push never waits for a pop).
C1_BoundedNonBlocking ==
  /\ Len(queue) <= QueueCapacity
  /\ \A h \in Handlers : hpc[h] = "push" => ENABLED EnqueueReturn(h)

\* a push on a full queue has returned, and another is under way on it
C1_Witness ==
  /\ Len(queue) = QueueCapacity
  /\ \E h \in Handlers : hres[h] = "full"
  /\ \E h \in Handlers : hpc[h] = "push"

\* C2: a push that returns while the queue is at capacity leaves the queue as
\* it was (contents and order), reports "full" to its caller where a
\* successful push reports "ok", and its item is not accepted; with no
\* worker draining, once more than capacity pushes have returned the queue
\* holds exactly the first capacity items accepted.
C2_DropNewest ==
  [][/\ \A h \in Handlers :
          (hpc[h] = "push" /\ hpc'[h] = "idle") =>
            IF Len(queue) = QueueCapacity
              THEN /\ queue' = queue
                   /\ hres'[h] = "full"
                   /\ hitem[h] \in rejected' /\ hitem[h] \notin accepted'
              ELSE /\ queue' = Append(queue, hitem[h])
                   /\ hres'[h] = "ok"
                   /\ hitem[h] \in accepted' /\ hitem[h] \notin rejected'
     /\ (workers_count = 0 /\ Len(queue) = QueueCapacity) => queue' = queue
     /\ (workers_count = 0 /\ Cardinality(accepted' \cup rejected') > QueueCapacity)
          => /\ Len(queue') = QueueCapacity
             /\ Cardinality(accepted') = QueueCapacity
             /\ {queue'[n] : n \in 1..Len(queue')} = accepted'
    ]_vars

\* no worker drains, capacity + 1 pushes have returned, the last was dropped
C2_Witness ==
  /\ workers_count = 0
  /\ Cardinality(accepted \cup rejected) = QueueCapacity + 1
  /\ Cardinality(rejected) = 1
  /\ Len(queue) = QueueCapacity

\* C3: every item a pop returned had been accepted by a push; no item is
\* returned by two pops; an accepted item is in the queue exactly once until
\* the one pop that returns it; an item gets at most one resolution attempt
\* and is not in the queue afterwards, also when the attempt failed.
C3_AtMostOnce ==
  \A i \in 1..MaxEnqueues :
    /\ popped[i] <= 1
    /\ popped[i] = 1 => i \in accepted
    /\ i \in accepted => InQueue(i) + popped[i] = 1
    /\ i \notin accepted => InQueue(i) = 0
    /\ attempts[i] <= popped[i]
    /\ attempts[i] = popped[i] - Cardinality({w \in WorkerIds : witem[w] = i})
    /\ i \in failures => (attempts[i] = 1 /\ InQueue(i) = 0)

\* two workers have each taken an item, and one attempt has failed
C3_Witness ==
  /\ workers_count = 2
  /\ \E i \in failures : attempts[i] = 1
  /\ \E w1, w2 \in WorkerIds : w1 # w2 /\ witem[w1] # NoItem /\ witem[w2] # NoItem
  /\ \E h \in Handlers : hpc[h] = "push"

\* C4: the counts reported so far plus the counter's current value equal the
\* number of on_request increments so far: each increment is in exactly one
\* report or still in the counter.
C4_NoLostNoDouble == reportedTotal + request_counter = tracedTotal

\* two reports made, increments both reported and pending
C4_Witness ==
  /\ ticks >= 2
  /\ reportedTotal >= 2
  /\ lastReported >= 1
  /\ request_counter >= 1

\* C5 as claimed: every inbound request adds one to the counter on arrival,
\* the end of a request does not touch it, and a tick reports the number of
\* requests that arrived since the previous tick and leaves the counter at 0.
C5_EveryRequestCounted ==
  [][/\ arrivals' = arrivals + 1 => request_counter' = request_counter + 1
     /\ inflight' < inflight => request_counter' = request_counter
     /\ ticks' = ticks + 1 => (lastReported' = windowAll /\ request_counter' = 0)
    ]_vars

\* C5, amended: every inbound request that the CORS layer forwards (every
\* method but OPTIONS) adds one to the counter on arrival, an OPTIONS request
\* adds nothing, the end of a request does not touch the counter, and a tick
\* reports the number of forwarded requests that arrived since the previous
\* tick and leaves the counter at 0.
C5_ForwardedRequestCounted ==
  [][/\ arrivals' = arrivals + 1 =>
          request_counter' = request_counter
                               + (IF lastMethod' = "OPTIONS" THEN 0 ELSE 1)
     /\ inflight' < inflight => request_counter' = request_counter
     /\ ticks' = ticks + 1 => (lastReported' = windowTraced /\ request_counter' = 0)
    ]_vars

\* three requests arrived between two consecutive ticks and the later tick
\* reported 3 and left the counter at 0
C5_Witness ==
  /\ ticks >= 2
  /\ lastWindowAll = 3
  /\ lastReported = 3
  /\ request_counter = 0
  /\ windowAll = 0

Present == {k \in DOMAIN cache : cache[k] # NoEntry}
LastRead == readLog[Len(readLog)]

\* C6: a value set on a key, not since removed for capacity and not yet
\* expired (by its time-to-live or, in the search tier, its time-to-idle,
\* counted from the set and from the caller's hits), is the value get
\* returns for the key.
C6_ReadAfterWrite ==
  \A k \in DOMAIN written :
    (written[k] # NoEntry /\ ~Expired(tier, written[k]))
      => Lookup(tier, cache, k) = written[k].val

\* the latest call was a get that hit a key set a clock step or more ago,
\* in a tier that has removed another key for capacity
C6_Witness ==
  /\ readLog # <<>>
  /\ LastRead.hit
  /\ written[LastRead.key] # NoEntry
  /\ written[LastRead.key].age >= 1
  /\ Lookup(tier, cache, LastRead.key) = written[LastRead.key].val
  /\ \E k \in DOMAIN written : k # LastRead.key /\ written[k] = NoEntry
                                 /\ freq[k] = 0 /\ InSeq(writeLog, k) = FALSE
                                 /\ cacheOps >= 3

\* C7 as claimed: the tier's hash map never holds more entries than the
\* tier's capacity.
C7_HeldWithinCapacity == Cardinality(Present) <= Capacity(tier)

\* C7, amended: the entries the tier has admitted never number more than its
\* capacity; every other entry it holds is one whose write still waits for
\* the tier's next maintenance run, so it holds at most capacity plus the
\* number of waiting writes.
C7_AdmittedWithinCapacity ==
  /\ Len(deque) <= Capacity(tier)
  /\ \A k \in Present : InSeq(deque, k) \/ InSeq(writeLog, k)
  /\ Cardinality(Present) <= Capacity(tier) + Len(writeLog)
  /\ \A n \in 1..Len(deque) : deque[n] \in Present

\* the tier is full, and a maintenance run has removed a key for capacity
C7_Witness ==
  /\ Len(deque) = Capacity(tier)
  /\ decisions # <<>>
  /\ \E n \in 1..Len(decisions) : decisions[n].out # 0
  /\ Cardinality(Present) = Capacity(tier)

C9_IdleExpiry ==
  \A k \in DOMAIN written :
    written[k] # NoEntry =>
      /\ (tier = "search" /\ written[k].idle >= SearchTTI)
           => Lookup(tier, cache, k) = NoValue
      /\ (tier = "search" /\ written[k].idle < SearchTTI
            /\ written[k].age < TTL(tier))
           => Lookup(tier, cache, k) = written[k].val
      /\ (tier # "search" /\ written[k].age < TTL(tier))
           => Lookup(tier, cache, k) = written[k].val

\* a search entry was hit after its set, then left idle to the limit, and
\* the get that followed missed it while its age was below the time-to-live
C9_Witness ==
  /\ tier = "search"
  /\ readLog # <<>>
  /\ ~LastRead.hit
  /\ written[LastRead.key] # NoEntry
  /\ written[LastRead.key].idle >= SearchTTI
  /\ written[LastRead.key].age > written[LastRead.key].idle
  /\ written[LastRead.key].age < TTL(tier)

\* C10: a value whose age since its set has reached the tier's time-to-live
\* is absent, and the age the tier keeps for an entry is the time since the
\* set of its value: no read makes it younger.
C10_TTLExpiry ==
  \A k \in DOMAIN written :
    written[k] # NoEntry =>
      /\ written[k].age >= TTL(tier) => Lookup(tier, cache, k) = NoValue
      /\ cache[k] # NoEntry => cache[k].age = written[k].age

\* a search entry that was read less than the idle limit ago has reached its
\* time-to-live and the get that followed missed it, with room in the tier
C10_Witness ==
  /\ tier = "search"
  /\ readLog # <<>>
  /\ ~LastRead.hit
  /\ written[LastRead.key] # NoEntry
  /\ written[LastRead.key].age >= TTL(tier)
  /\ written[LastRead.key].idle < SearchTTI
  /\ Len(deque) < Capacity(tier)

\* number of pops that have returned an item
RECURSIVE SumTo(_, _)
SumTo(f, n) == IF n = 0 THEN 0 ELSE f[n] + SumTo(f, n - 1)
NumPopped == SumTo(popped, MaxEnqueues)

\* C15: a pop that returns an item returns the head of the queue and removes
\* it, and that item is the earliest accepted of the items not yet popped:
\* the k-th pop that returns an item returns the k-th accepted item, so no
\* consumer sees two items in the reverse of their enqueue order; a pop that
\* signals empty found the queue empty and leaves it as it was.
C15_OldestFirst ==
  [][/\ popped' # popped =>
          /\ queue # <<>>
          /\ queue' = Tail(queue)
          /\ NumPopped < Len(acceptOrder)
          /\ Head(queue) = acceptOrder[NumPopped + 1]
          /\ popped' = [popped EXCEPT ![Head(queue)] = @ + 1]
          /\ \E w \in WorkerIds : witem'[w] = Head(queue) /\ wres'[w] = "item"
     /\ \A w \in WorkerIds :
          (wres'[w] = "empty" /\ wres[w] # "empty") =>
             /\ queue = <<>>
             /\ queue' = queue
             /\ popped' = popped
     /\ \A w \in WorkerIds :
          (wres'[w] # wres[w] /\ queue # <<>>) => wres'[w] = "item"
    ]_vars

\* one worker has taken the first two accepted items in their order while
\* a third waits in the queue, and the other worker's pop found the queue
\* empty before
C15_Witness ==
  /\ Len(acceptOrder) >= 3
  /\ NumPopped = 2
  /\ attempts[acceptOrder[1]] = 1
  /\ \E w \in WorkerIds : witem[w] = acceptOrder[2]
  /\ queue = <<acceptOrder[3]>>
  /\ \E w \in WorkerIds : wres[w] = "empty"

\* a header that is present with a value to_str accepts
Readable(v) ==
  /\ v.present
  /\ \A n \in 1..Len(v.bytes) : v.bytes[n] \in {9} \cup (32..126)

\* C13: the span's user_agent is the value of Lrclib-Client when that
\* header is present and readable as text, otherwise that of X-User-Agent
\* when present and readable, otherwise that of User-Agent when present and
\* readable, otherwise the empty string.
C13_ClientIdentity ==
  user_agent =
    IF Readable(spanHeaders["Lrclib-Client"])
      THEN spanHeaders["Lrclib-Client"].bytes
    ELSE IF Readable(spanHeaders["X-User-Agent"])
      THEN spanHeaders["X-User-Agent"].bytes
    ELSE IF Readable(spanHeaders["User-Agent"])
      THEN spanHeaders["User-Agent"].bytes
    ELSE <<>>

\* Lrclib-Client is present but not readable, X-User-Agent and User-Agent
\* are readable and differ, and the span took X-User-Agent
C13_Witness ==
  /\ spanHeaders["Lrclib-Client"] = [present |-> TRUE, bytes |-> <<233>>]
  /\ spanHeaders["X-User-Agent"] = [present |-> TRUE, bytes |-> <<97>>]
  /\ spanHeaders["User-Agent"] = [present |-> TRUE, bytes |-> <<98>>]
  /\ user_agent = <<97>>

\* C16: once the recent-lyrics task has stored a count, the recent-activity
\* counter equals the result of the latest count query, whatever it held
\* before (it is overwritten, never added to); before the first store it is 0.
C16_OverwritesCount ==
  /\ rticks = 0 => recent_lyrics_count = 0
  /\ rticks >= 1 => recent_lyrics_count = lastQuery

\* the latest store replaced a larger count by a smaller one that is not 0
C16_Witness ==
  /\ rticks >= 2
  /\ prevRecent = 2
  /\ lastQuery = 1
  /\ recent_lyrics_count = 1

\* ticks the recent-lyrics task has taken
RecentTicksTaken == rticks + (IF rpc = "query" THEN 1 ELSE 0)

\* C19: while no timer of a task has been taken late, the n-th report of the
\* request-rate task happened SleepSecs + (n - 1) * IntervalSecs = 60 * n
\* seconds after the task was spawned, and so did the n-th tick of the
\* recent-lyrics task; late or not, the n-th action of a task never happens
\* before that instant.
C19_EverySixtySeconds ==
  /\ (ticks >= 1 /\ ~mlate) =>
        lastReportAt = mspawnAt + SleepSecs + (ticks - 1) * IntervalSecs
  /\ ticks >= 1 =>
        lastReportAt >= mspawnAt + SleepSecs + (ticks - 1) * IntervalSecs
  /\ (RecentTicksTaken >= 1 /\ ~rlate /\ rpc \in {"loop", "query"}) =>
        lastTickAt = rspawnAt + SleepSecs + (RecentTicksTaken - 1) * IntervalSecs
  /\ (RecentTicksTaken >= 1 /\ rpc \in {"loop", "query"}) =>
        lastTickAt >= rspawnAt + SleepSecs + (RecentTicksTaken - 1) * IntervalSecs

\* the request-rate task has just made its third report, on time, 180
\* seconds after its spawn, and the recent-lyrics task its second store
C19_Witness ==
  /\ ticks = 3
  /\ ~mlate
  /\ now = 180
  /\ lastReportAt = mspawnAt + 180
  /\ rticks = 2
  /\ ~rlate
  /\ lastTickAt = rspawnAt + 120

\* C20: once pool.get() or the count query has returned Err to the
\* recent-lyrics task, the task is dead and stays dead, and the
\* recent-activity counter keeps the value it had; the failure changes
\* nothing but the task itself, and afterwards the request-rate task, the
\* worker and the request path can take every step their own state allows.
C20_RecentTaskStopsAlone ==
  /\ [](rfailed => rpc = "dead")
  /\ [][rfailed =>
          /\ rpc' = "dead"
          /\ recent_lyrics_count' = recent_lyrics_count
          /\ rticks' = rticks
          /\ pool' = pool]_vars
  /\ [][(~rfailed /\ rfailed') =>
          /\ recent_lyrics_count' = recent_lyrics_count
          /\ UNCHANGED <<queueVars, metricVars, clockVars, cacheVars, lifeVars>>
       ]_vars
  /\ []((rfailed /\ Alive) =>
          /\ (mpc = "sleep" /\ now >= mdeadline) => ENABLED MetricsWake
          /\ (mpc = "loop" /\ now >= mdeadline /\ ticks < MaxTicks)
               => ENABLED MetricsTick
          /\ (qpc = "running" /\ wpc[1] = "pop") => ENABLED WorkerPop(1)
          /\ (qpc = "running" /\ wpc[1] = "work") => ENABLED WorkerAttempt(1, TRUE)
          /\ (Accepting /\ arrivals < ServeRequests) => ENABLED ServeRequestArrives
          /\ (inflight > 0 /\ hpc[1] = "idle") => ENABLED ServeRequestEnds)

\* the task stored a count, failed at a later tick and is dead; since then
\* the request-rate task has reported again, a request has been counted and
\* the worker holds an item
C20_Witness ==
  /\ rfailed
  /\ rpc = "dead"
  /\ rticks = 1
  /\ recent_lyrics_count = MaxLyricsCount
  /\ ticks = 3
  /\ request_counter >= 1
  /\ wpc[1] = "work"

\* C17 as claimed: a report of the request-rate task changes only the
\* request counter, a store of the recent-lyrics task only the
\* recent-activity counter, a request-path increment only the request
\* counter; none changes the caches or the queue, and no step of either task
\* touches anything else of AppState (the pool included).
C17_TasksTouchCountersOnly ==
  [][/\ ticks' # ticks =>
          /\ request_counter' = 0
          /\ UNCHANGED <<recent_lyrics_count, pool, queueVars, cacheVars>>
     /\ rticks' # rticks =>
          /\ recent_lyrics_count' = lastQuery'
          /\ UNCHANGED <<request_counter, pool, queueVars, cacheVars>>
     /\ tracedTotal' # tracedTotal =>
          /\ request_counter' = request_counter + 1
          /\ UNCHANGED <<recent_lyrics_count, pool, queueVars, cacheVars>>
     /\ (mpc' # mpc \/ rpc' # rpc) => UNCHANGED <<pool, queueVars, cacheVars>>
    ]_vars

\* C17, amended: as claimed for the counters, the caches and the queue; of
\* the rest of AppState the recent-lyrics task also uses the pool: its tick
\* checks one connection out, and its store, or the failure of its query,
\* gives the connection back. The request-rate task and the request-path
\* increment leave the pool alone.
C17_DisjointCounters ==
  [][/\ ticks' # ticks =>
          /\ request_counter' = 0
          /\ UNCHANGED <<recent_lyrics_count, pool, queueVars, cacheVars>>
     /\ rticks' # rticks =>
          /\ recent_lyrics_count' = lastQuery'
          /\ pool = 1 /\ pool' = 0
          /\ UNCHANGED <<request_counter, queueVars, cacheVars>>
     /\ tracedTotal' # tracedTotal =>
          /\ request_counter' = request_counter + 1
          /\ UNCHANGED <<recent_lyrics_count, pool, queueVars, cacheVars>>
     /\ mpc' # mpc =>
          UNCHANGED <<request_counter, recent_lyrics_count, pool, queueVars,
                      cacheVars>>
     /\ (rpc' # rpc /\ rticks' = rticks) =>
          /\ UNCHANGED <<request_counter, recent_lyrics_count, queueVars,
                         cacheVars>>
          /\ pool' = IF rpc' = "query" THEN pool + 1
                     ELSE IF rpc = "query" THEN pool - 1 ELSE pool
     /\ pool' # pool => (rpc' # rpc /\ (rpc = "query" \/ rpc' = "query"))
    ]_vars

\* both tasks have acted while the queue and the tier hold something and a
\* request is counted, and the recent-lyrics task holds a connection
C17_Witness ==
  /\ ticks >= 1
  /\ rticks >= 1
  /\ rpc = "query"
  /\ pool = 1
  /\ queue # <<>>
  /\ cache[1] # NoEntry
  /\ request_counter >= 1
  /\ recent_lyrics_count = MaxLyricsCount

\* C12: once the shutdown signal has come (ctrl_c or terminate, the first of
\* the two), no further request is accepted, no request in flight is cut
\* off (each can still take its next step), and serve has returned only if
\* the signal has come and no request is in flight any more.
C12_GracefulShutdown ==
  /\ signal # "none" =>
       /\ arrivals = arrivalsAtSignal
       /\ inflight <= inflightAtSignal
       /\ ~ ENABLED ServeRequestArrives
  /\ (signal # "none" /\ Alive /\ inflight > 0) =>
       IF hpc[1] = "idle" \/ inflight > 1
         THEN ENABLED ServeRequestEnds
         ELSE ENABLED EnqueueReturn(1)
  /\ spc = "returned" => (signal # "none" /\ inflight = 0)
  /\ (signal # "none" /\ inflight > 0) => spc = "serve"

\* serve has returned after a terminate signal that found two requests in
\* flight
C12_Witness ==
  /\ spc = "returned"
  /\ signal = "terminate"
  /\ inflightAtSignal = ServeRequests
  /\ inflight = 0

\* the steps of serve that have succeeded so far
Started == {started[i] : i \in 1..Len(started)}

\* C14: the steps of serve succeed in the order pool, AppState, request-rate
\* task, recent-lyrics task, queue task, listener; a task exists exactly
\* when its spawn has happened; AppState is built empty, with both counters
\* at zero; when the pool cannot be opened nothing is built, spawned or
\* bound; no request is handled before the three spawns and the bind.
C14_StartupOrder ==
  /\ Len(started) <= Len(StartupOrder)
  /\ started = SubSeq(StartupOrder, 1, Len(started))
  /\ (mpc # "unspawned") = ("metrics" \in Started)
  /\ (rpc # "unspawned") = ("recent" \in Started)
  /\ (qpc # "unspawned") = ("queue" \in Started)
  /\ (spc = "serve") => started = StartupOrder
  /\ (spc = "spawn_metrics") =>
       /\ queue = <<>>
       /\ request_counter = 0
       /\ recent_lyrics_count = 0
       /\ \A k \in KeysOf(tier) : cache[k] = NoEntry
  /\ "pool" \notin Started =>
       /\ spc \in {"init_db", "panicked"}
       /\ started = <<>>
       /\ mpc = "unspawned" /\ rpc = "unspawned" /\ qpc = "unspawned"
       /\ arrivals = 0
  /\ (arrivals > 0 \/ inflight > 0) =>
       {"pool", "state", "metrics", "recent", "queue", "listener"}
         \subseteq Started

\* a request is handled after every step has succeeded, while the task that
\* runs start_queue, already spawned, has not been polled yet
C14_Witness ==
  /\ arrivals >= 1
  /\ inflight >= 1
  /\ started = StartupOrder
  /\ qpc = "spawned"
  /\ mpc = "sleep"
  /\ rpc = "sleep"

\* C18: the step of the shutdown signal changes nothing of the queue, the
\* workers, the two tasks or the caches; while the process lives, each step
\* of a worker or of a task is enabled exactly when its own condition
\* holds, signal or no signal; serve returns without touching the queue or
\* the counter; when the process ends, and ever after, the queue keeps its
\* items, nothing more is dequeued or attempted, and what the request
\* counter holds is never reported.
C18_OnlyListenerObserves ==
  /\ [][signal' # signal =>
          UNCHANGED <<queueVars, metricVars, recentVars, clockVars, cacheVars,
                      spanVars, raceVars, spc, qpc, exited>>]_vars
  /\ [](~exited =>
          /\ (mpc = "sleep" /\ now >= mdeadline) = ENABLED MetricsWake
          /\ (mpc = "loop" /\ now >= mdeadline /\ ticks < MaxTicks)
               = ENABLED MetricsTick
          /\ (rpc = "sleep" /\ now >= rdeadline) = ENABLED RecentWake
          /\ (rpc = "loop" /\ now >= rdeadline /\ rticks < MaxTicks)
               = ENABLED RecentTick
          /\ (rpc = "query") = ENABLED RecentStores(MaxLyricsCount)
          /\ (qpc = "running" /\ workers_count >= 1 /\ wpc[1] = "pop")
               = ENABLED WorkerPop(1)
          /\ (qpc = "running" /\ workers_count >= 1 /\ wpc[1] = "work")
               = ENABLED WorkerAttempt(1, TRUE))
  /\ [][(spc = "serve" /\ spc' = "returned") =>
          UNCHANGED <<queueVars, metricVars, recentVars, cacheVars>>]_vars
  /\ [][exited' =>
          /\ UNCHANGED <<queue, popped, attempts, wpc, witem>>
          /\ UNCHANGED <<request_counter, ticks, reportedTotal, lastReported>>
          /\ UNCHANGED <<recent_lyrics_count, rticks>>]_vars

\* the process has ended after a shutdown signal and serve's return while
\* the worker pool and both tasks were still in their loops; an item is
\* still queued and a counted request was never reported
C18_Witness ==
  /\ exited
  /\ signal = "ctrl_c"
  /\ spc = "returned"
  /\ qpc = "running"
  /\ wpc[1] = "pop"
  /\ mpc = "loop"
  /\ rpc = "loop"
  /\ ticks >= 1
  /\ queue # <<>>
  /\ request_counter >= 1
  /\ reportedTotal < tracedTotal

\* C11: whatever the interleaving of the callers' insert and get calls on
\* the key, a get returns nothing or a value that an insert put there whole,
\* the key never holds anything else, and when no insert call is under way
\* the key holds the value of the insert that reached the tier last.
C11_WholeValueLastWriter ==
  /\ \A c \in Callers : cret[c] \in setValues \cup {NoValue}
  /\ cache[RaceKey].val \in setValues \cup {NoValue}
  /\ (setValues # {} /\ \A c \in Callers : cpc[c] \notin {"set", "setdone"})
       => Lookup(tier, cache, RaceKey) = lastApplied

\* two inserts of different values were under way together and reached the
\* tier in the order opposite to their calls; every call has returned, a get
\* that ran among them returned the value of the earlier one, and the key
\* holds the value of the later one
C11_Witness ==
  /\ raced
  /\ \A c \in Callers : cpc[c] = "idle"
  /\ setValues = Values
  /\ \E c \in Callers : cret[c] \notin {NoValue, lastApplied}
  /\ Lookup(tier, cache, RaceKey) = lastApplied

====
